---------------------------- MODULE Spec2Model ----------------------------
(***************************************************************************)
(* State-machine model of the two batch scripts of                         *)
(* scripts/image-converter-statusicon:                                     *)
(*   convert_to_lvgl.py  - 32x32 PNG -> RGB565A8 blob -> LVGL C source     *)
(*   generate_emoji.py   - 5-worker image generation, then 32x32 1-bit     *)
(*                         post-processing of every raw image              *)
(***************************************************************************)
EXTENDS Integers, Sequences, FiniteSets

(***************************************************************************)
(* Bounds of the model                                                     *)
(***************************************************************************)
\* how many entries of EMOJI_MAP (convert_to_lvgl.py) a run iterates over
NumEmoji == 3
\* how many entries of EMOTIONS (generate_emoji.py) a run iterates over
NumEmotions == 3
\* how many pixel patterns the input images are drawn from
NumPatterns == 3

(***************************************************************************)
(* Python integer operators used by the encoder                           *)
(***************************************************************************)
RECURSIVE Pow2(_)
Pow2(n) == IF n = 0 THEN 1 ELSE 2 * Pow2(n - 1)

\* x >> n
Shr(x, n) == x \div Pow2(n)

\* x << n
Shl(x, n) == x * Pow2(n)

RECURSIVE BitOr(_, _)
\* x | y
BitOr(x, y) ==
    IF x = 0 THEN y
    ELSE IF y = 0 THEN x
    ELSE (IF (x % 2 = 1) \/ (y % 2 = 1) THEN 1 ELSE 0)
         + 2 * BitOr(x \div 2, y \div 2)

RECURSIVE BitAnd(_, _)
\* x & y
BitAnd(x, y) ==
    IF x = 0 \/ y = 0 THEN 0
    ELSE (IF (x % 2 = 1) /\ (y % 2 = 1) THEN 1 ELSE 0)
         + 2 * BitAnd(x \div 2, y \div 2)

(***************************************************************************)
(* convert_to_lvgl.py : constants                                          *)
(***************************************************************************)
\* the fixed edge length of an emoji image (img.size == (32, 32))
SIZE == 32

EMOJI_MAP_ALL ==
    << <<"neutral", "1f636">>,     <<"happy", "1f642">>,
       <<"laughing", "1f606">>,    <<"funny", "1f602">>,
       <<"sad", "1f614">>,         <<"angry", "1f620">>,
       <<"crying", "1f62d">>,      <<"loving", "1f60d">>,
       <<"embarrassed", "1f633">>, <<"surprised", "1f62f">>,
       <<"shocked", "1f631">>,     <<"thinking", "1f914">>,
       <<"winking", "1f609">>,     <<"cool", "1f60e">>,
       <<"relaxed", "1f60c">>,     <<"delicious", "1f924">>,
       <<"kissy", "1f618">>,       <<"confident", "1f60f">>,
       <<"sleepy", "1f634">>,      <<"silly", "1f61c">>,
       <<"confused", "1f644">> >>

\* the entries of EMOJI_MAP the model iterates over, in list order
EMOJI_MAP == SubSeq(EMOJI_MAP_ALL, 1, NumEmoji)

EmojiNames == { EMOJI_MAP[k][1] : k \in 1..Len(EMOJI_MAP) }
EmojiCps == { EMOJI_MAP[k][2] : k \in 1..Len(EMOJI_MAP) }

(***************************************************************************)
(* Images.  An image file is described by its size and its pixels; the     *)
(* pixels are given by two RGBA colours laid out in one of NumPatterns     *)
(* patterns, and getpixel reads them.                                      *)
(***************************************************************************)
\* a directory entry is << >> when the file does not exist and <<content>>
\* when it does
NoFile == << >>
File(content) == << content >>
Content(entry) == entry[1]

\* pixel pattern k: which pixels carry the foreground colour
InPattern(k, x, y) ==
    CASE k = 1 -> TRUE
      [] k = 2 -> (x + y) % 2 = 0
      [] k = 3 -> y * SIZE + x = SIZE * SIZE - 1
      [] OTHER -> (y * SIZE + x) % (k + 1) = 1

\* img.getpixel((x, y)) of the image converted to RGBA
getpixel(img, x, y) == IF InPattern(img.pat, x, y) THEN img.fg ELSE img.bg

\* RGBA colours the inputs are drawn from
Palette ==
    { <<255, 0, 0, 255>>,  <<0, 0, 0, 0>>,       <<255, 255, 255, 255>>,
      <<7, 3, 7, 1>>,      <<8, 252, 248, 254>>, <<201, 102, 51, 128>> }

\* sizes an input file may have
Sizes == { <<SIZE, SIZE>>, <<16, 16>>, <<SIZE, 64>> }

\* the images of the right size, and one image of every other size
Images ==
    [ size : {<<SIZE, SIZE>>}, fg : Palette, bg : Palette,
      pat : 1..NumPatterns ]
    \cup [ size : Sizes, fg : {<<255, 0, 0, 255>>}, bg : {<<0, 0, 0, 0>>},
           pat : {1} ]

(***************************************************************************)
(* convert_to_lvgl.py : png_to_rgb565a8                                    *)
(***************************************************************************)
\* mutant of rgb565: green reduced to 5 bits (g >> 3)
rgb565_green5(r, g, b) ==
    BitOr(BitOr(Shl(Shr(r, 3), 11), Shl(Shr(g, 3), 5)), Shr(b, 3))

\* rgb565 = ((r >> 3) << 11) | ((g >> 2) << 5) | (b >> 3)
rgb565(r, g, b) ==
    BitOr(BitOr(Shl(Shr(r, 3), 11), Shl(Shr(g, 2), 5)), Shr(b, 3))

\* the pixel visited by the k-th iteration (k from 0) of
\* "for y in range(32): for x in range(32)"
PixelAt(img, k) == getpixel(img, k % SIZE, k \div SIZE)

\* the two bytes one iteration appends to rgb565_data:
\* rgb565 & 0xFF, then (rgb565 >> 8) & 0xFF
PixelBytes(p) ==
    LET c == rgb565(p[1], p[2], p[3])
    IN  << BitAnd(c, 255), BitAnd(Shr(c, 8), 255) >>

\* rgb565_data after the loop: two appended bytes per pixel
rgb565_data(img) ==
    [ j \in 1..(2 * SIZE * SIZE) |->
        PixelBytes(PixelAt(img, (j - 1) \div 2))[((j - 1) % 2) + 1] ]

\* alpha_data after the loop: one appended byte per pixel
alpha_data(img) ==
    [ j \in 1..(SIZE * SIZE) |-> PixelAt(img, j - 1)[4] ]

\* mutant of png_blob: the alpha plane first
png_blob_alpha_first(img) == alpha_data(img) \o rgb565_data(img)

\* bytes(rgb565_data + alpha_data)
png_blob(img) == rgb565_data(img) \o alpha_data(img)

\* assert img.size == (32, 32)
size_ok(img) == img.size = <<SIZE, SIZE>>

\* png_to_rgb565a8 when the assert passes
png_to_rgb565a8(img) == png_blob(img)

(***************************************************************************)
(* convert_to_lvgl.py : generate_c_file                                    *)
(***************************************************************************)
HexDigits == << "0", "1", "2", "3", "4", "5", "6", "7",
                "8", "9", "a", "b", "c", "d", "e", "f" >>

\* f"0x{b:02x}" : the two hexadecimal digits of a byte
HexToken(b) == << HexDigits[(b \div 16) + 1], HexDigits[(b % 16) + 1] >>

\* data[start:end] of Python: clipped to the length of data (0-based, end exclusive)
Slice(data, start, end) ==
    LET e == IF end > Len(data) THEN Len(data) ELSE end
    IN  IF start >= e THEN << >>
        ELSE [ j \in 1..(e - start) |-> data[start + j] ]

\* one emitted row: the tokens of a chunk
HexRow(chunk) == [ j \in 1..Len(chunk) |-> HexToken(chunk[j]) ]

\* the RGB565 rows: 64 bytes per row
color_rows(data) ==
    [ row \in 1..SIZE |->
        HexRow(Slice(data, (row - 1) * 64, (row - 1) * 64 + 64)) ]

\* mutant of alpha_rows: alpha_offset = 32 * 32
alpha_rows_offset1024(data) ==
    [ row \in 1..SIZE |->
        HexRow(Slice(data, SIZE * SIZE + (row - 1) * 32,
                     SIZE * SIZE + (row - 1) * 32 + 32)) ]

\* the alpha rows: alpha_offset = 32 * 32 * 2, 32 bytes per row
alpha_rows(data) ==
    [ row \in 1..SIZE |->
        HexRow(Slice(data, SIZE * SIZE * 2 + (row - 1) * 32,
                     SIZE * SIZE * 2 + (row - 1) * 32 + 32)) ]

\* the generated C source: the array rows and the lv_image_dsc_t record
generate_c_file(emotion_name, unicode_cp, data) ==
    [ var_name  |-> <<"emoji", unicode_cp, "32">>,
      rows      |-> color_rows(data) \o alpha_rows(data),
      cf        |-> "LV_COLOR_FORMAT_RGB565A8",
      w         |-> 32,
      h         |-> 32,
      stride    |-> 64,
      data_size |-> Len(data) ]

(***************************************************************************)
(* State                                                                   *)
(***************************************************************************)
VARIABLES
    \* convert_to_lvgl.py
    emoji_dir,      \* output/emoji_32 : name -> NoFile or File(image)
    output_dir,     \* output/emoji_c  : file name -> NoFile or File(C source)
    conv_pc,        \* position of main
    conv_i,         \* index of the EMOJI_MAP entry the loop is at
    converted,      \* main's counter
    data,           \* main's local: the blob of the current item
    c_code,         \* main's local: the C source of the current item
    conv_stdout,    \* lines printed by main
    conv_stderr,    \* traceback of an uncaught exception, if any
    \* generate_emoji.py : main
    raw_dir,        \* output/emoji_raw : name -> NoFile or File(payload)
    final_dir,      \* output/emoji_32  : name -> NoFile or File(bitmap)
    preview_dir,    \* output/emoji_preview : name -> NoFile or File(bitmap)
    gen_pc,         \* position of main
    todo,           \* main's list of the expressions to generate
    skipped,        \* main's counters
    generated,
    failed,
    missing,        \* main's list of the expressions without a raw image
    proc_i,         \* index of the EMOTIONS entry step 2 is at
    processed,
    \* generate_emoji.py : the pool's tasks
    task_pc,        \* name -> position of gen_task
    resp,           \* name -> what generate_content did
    image_data,     \* name -> gen_task's local
    future,         \* name -> << >> or <<(name, success)>> once the task returned
    print_lock,     \* the thread holding print_lock, or Free
    \* the console of generate_emoji.py
    console_line,   \* the pieces printed on the last console line
    logged,         \* every piece printed so far
    \* process_to_monochrome_32 : the final thresholding step
    lum_img,        \* the 32x32 "L" image before img.point
    mono_img,       \* the mode "1" image after it
    mono_pc

conv_vars == << emoji_dir, output_dir, conv_pc, conv_i, converted, data,
                c_code, conv_stdout, conv_stderr >>

dir_vars == << raw_dir, final_dir, preview_dir >>
main_vars == << gen_pc, todo, skipped, generated, failed, missing, proc_i,
                processed >>
task_vars == << task_pc, resp, image_data, future, print_lock >>
console_vars == << console_line, logged >>
gen_vars == << dir_vars, main_vars, task_vars, console_vars >>

mono_vars == << lum_img, mono_img, mono_pc >>

vars == << conv_vars, gen_vars, mono_vars >>

(***************************************************************************)
(* convert_to_lvgl.py : main                                               *)
(***************************************************************************)
\* a local of main before its first assignment
NoData == << >>
NoCode ==
    [ var_name |-> << >>, rows |-> << >>, cf |-> "", w |-> 0, h |-> 0,
      stride |-> 0, data_size |-> 0 ]

\* the content of an output file left by an earlier run
OldCode ==
    [ var_name |-> <<"old">>, rows |-> << >>, cf |-> "", w |-> 0, h |-> 0,
      stride |-> 0, data_size |-> 0 ]

\* OUTPUT_DIR / f"emoji_{unicode_cp}_32.c"
out_path(unicode_cp) == << "emoji_", unicode_cp, "_32.c" >>

OutPaths == { out_path(cp) : cp \in EmojiCps }

\* the image the k-th input file of a batch holds when it is a valid one
GoodImage(k) ==
    [ size |-> <<SIZE, SIZE>>, fg |-> <<8 * k, 4 * k, 255 - k, 255>>,
      bg |-> <<0, 0, 0, 0>>, pat |-> 2 ]

\* an input file of the wrong size
BadImage ==
    [ size |-> <<16, 16>>, fg |-> <<0, 0, 0, 255>>,
      bg |-> <<255, 255, 255, 255>>, pat |-> 1 ]

\* directories of a batch run: every entry is missing, valid or of a wrong size
BatchDirs ==
    { d \in [ EmojiNames -> {NoFile, File(BadImage)} \cup
                            { File(GoodImage(k)) : k \in 1..Len(EMOJI_MAP) } ] :
        \A k \in 1..Len(EMOJI_MAP) :
            d[EMOJI_MAP[k][1]] \in
                {NoFile, File(BadImage), File(GoodImage(k))} }

\* directories that hold only the first expression, with any image
SingleDirs ==
    { [ n \in EmojiNames |-> IF n = EMOJI_MAP[1][1] THEN File(img) ELSE NoFile ] :
        img \in Images }

\* the state of convert_to_lvgl.py while it is not the script being run
ConvIdle ==
    /\ emoji_dir = << >>
    /\ output_dir = << >>
    /\ conv_pc = "idle"
    /\ conv_i = 0
    /\ converted = 0
    /\ data = NoData
    /\ c_code = NoCode
    /\ conv_stdout = << >>
    /\ conv_stderr = << >>

\* the state of generate_emoji.py while it is not the script being run
GenIdle ==
    /\ raw_dir = << >>
    /\ final_dir = << >>
    /\ preview_dir = << >>
    /\ gen_pc = "idle"
    /\ todo = << >>
    /\ skipped = 0
    /\ generated = 0
    /\ failed = 0
    /\ missing = << >>
    /\ proc_i = 0
    /\ processed = 0
    /\ task_pc = << >>
    /\ resp = << >>
    /\ image_data = << >>
    /\ future = << >>
    /\ print_lock = "free"
    /\ console_line = << >>
    /\ logged = {}

\* the state of the thresholding step while it is not what is being run
MonoIdle ==
    /\ lum_img = << >>
    /\ mono_img = << >>
    /\ mono_pc = "idle"

ConvInit ==
    /\ GenIdle
    /\ MonoIdle
    /\ emoji_dir \in BatchDirs \cup SingleDirs
    /\ output_dir \in { [ f \in OutPaths |-> NoFile ],
                        [ f \in OutPaths |-> File(OldCode) ] }
    /\ conv_pc = "loop"
    /\ conv_i = 1
    /\ converted = 0
    /\ data = NoData
    /\ c_code = NoCode
    /\ conv_stdout = << >>
    /\ conv_stderr = << >>

emotion_name == EMOJI_MAP[conv_i][1]
unicode_cp == EMOJI_MAP[conv_i][2]
\* Image.open(png_path).convert("RGBA")
png == Content(emoji_dir[emotion_name])

\* mutant of ConvMissing: "break" in place of "continue"
ConvMissing_break ==
    /\ conv_pc = "loop"
    /\ conv_i <= Len(EMOJI_MAP)
    /\ emoji_dir[emotion_name] = NoFile
    /\ conv_stdout' = Append(conv_stdout, <<"missing", emotion_name>>)
    /\ conv_i' = Len(EMOJI_MAP) + 1
    /\ UNCHANGED << emoji_dir, output_dir, conv_pc, converted, data, c_code,
                    conv_stderr, gen_vars, mono_vars >>

\* "if not png_path.exists(): print(缺失); continue"
ConvMissing ==
    /\ conv_pc = "loop"
    /\ conv_i <= Len(EMOJI_MAP)
    /\ emoji_dir[emotion_name] = NoFile
    /\ conv_stdout' = Append(conv_stdout, <<"missing", emotion_name>>)
    /\ conv_i' = conv_i + 1
    /\ UNCHANGED << emoji_dir, output_dir, conv_pc, converted, data, c_code,
                    conv_stderr, gen_vars, mono_vars >>

\* mutant of ConvBegin: the output file is created before the encoding
ConvBegin_touch ==
    /\ conv_pc = "loop"
    /\ conv_i <= Len(EMOJI_MAP)
    /\ emoji_dir[emotion_name] # NoFile
    /\ conv_stdout' = Append(conv_stdout, <<"converting", emotion_name>>)
    /\ output_dir' = [ output_dir EXCEPT ![out_path(unicode_cp)] = File(NoCode) ]
    /\ conv_pc' = "encode"
    /\ UNCHANGED << emoji_dir, conv_i, converted, data, c_code,
                    conv_stderr, gen_vars, mono_vars >>

\* the file exists: print the progress prefix
ConvBegin ==
    /\ conv_pc = "loop"
    /\ conv_i <= Len(EMOJI_MAP)
    /\ emoji_dir[emotion_name] # NoFile
    /\ conv_stdout' = Append(conv_stdout, <<"converting", emotion_name>>)
    /\ conv_pc' = "encode"
    /\ UNCHANGED << emoji_dir, output_dir, conv_i, converted, data, c_code,
                    conv_stderr, gen_vars, mono_vars >>

\* data = png_to_rgb565a8(png_path)
ConvEncode ==
    /\ conv_pc = "encode"
    /\ size_ok(png)
    /\ data' = png_to_rgb565a8(png)
    /\ conv_pc' = "emit"
    /\ UNCHANGED << emoji_dir, output_dir, conv_i, converted, c_code,
                    conv_stdout, conv_stderr, gen_vars, mono_vars >>

\* the assert of png_to_rgb565a8 fails; main has no handler, the script ends
\* with the interpreter's traceback
ConvEncodeRaise ==
    /\ conv_pc = "encode"
    /\ ~ size_ok(png)
    /\ conv_stderr' = << "AssertionError", emotion_name,
                         png.size >>
    /\ conv_pc' = "aborted"
    /\ UNCHANGED << emoji_dir, output_dir, conv_i, converted, data, c_code,
                    conv_stdout, gen_vars, mono_vars >>

\* c_code = generate_c_file(emotion_name, unicode_cp, data)
ConvEmit ==
    /\ conv_pc = "emit"
    /\ c_code' = generate_c_file(emotion_name, unicode_cp, data)
    /\ conv_pc' = "write"
    /\ UNCHANGED << emoji_dir, output_dir, conv_i, converted, data,
                    conv_stdout, conv_stderr, gen_vars, mono_vars >>

\* out_path.write_text(c_code); print ✓; converted += 1
ConvWrite ==
    /\ conv_pc = "write"
    /\ output_dir' = [ output_dir EXCEPT ![out_path(unicode_cp)] = File(c_code) ]
    /\ conv_stdout' = Append(conv_stdout, <<"ok", emotion_name, Len(data)>>)
    /\ converted' = converted + 1
    /\ conv_i' = conv_i + 1
    /\ conv_pc' = "loop"
    /\ UNCHANGED << emoji_dir, data, c_code, conv_stderr, gen_vars,
                    mono_vars >>

\* after the loop: "转换完成: {converted}/{len(EMOJI_MAP)}"
ConvSummary ==
    /\ conv_pc = "loop"
    /\ conv_i > Len(EMOJI_MAP)
    /\ conv_stdout' = Append(conv_stdout,
                             <<"summary", converted, Len(EMOJI_MAP)>>)
    /\ conv_pc' = "done"
    /\ UNCHANGED << emoji_dir, output_dir, conv_i, converted, data, c_code,
                    conv_stderr, gen_vars, mono_vars >>

ConvNext ==
    \/ ConvMissing
    \/ ConvBegin
    \/ ConvEncode
    \/ ConvEncodeRaise
    \/ ConvEmit
    \/ ConvWrite
    \/ ConvSummary

SpecConv == ConvInit /\ [][ConvNext]_vars

(***************************************************************************)
(* generate_emoji.py : constants                                           *)
(***************************************************************************)
\* ThreadPoolExecutor(max_workers=5)
MAX_WORKERS == 5

\* the names of EMOTIONS, in list order (the emoji and the description of an
\* entry only feed the prompt)
EMOTIONS_ALL ==
    << "neutral", "happy", "laughing", "funny", "sad", "angry", "crying",
       "loving", "embarrassed", "surprised", "shocked", "thinking",
       "winking", "cool", "relaxed", "delicious", "kissy", "confident",
       "sleepy", "silly", "confused" >>

\* the entries of EMOTIONS the model iterates over, in list order
EMOTIONS == SubSeq(EMOTIONS_ALL, 1, NumEmotions)

EmotionNames == { EMOTIONS[k] : k \in 1..Len(EMOTIONS) }

\* file contents, as far as main distinguishes them
OldPng == "png of an earlier run"
Payload == "inline_data.data"
MonoPng == "32x32 1-bit png"
PreviewPng == "128x128 1-bit png"

\* what client.models.generate_content can do for one request
Responses == { "image", "no_image", "error" }

\* what process_to_monochrome_32 can do for one raw image: finish, raise
\* before img.save(output_path), or raise after it; main prints "→ 32x32 ✓"
\* or "处理失败: {e}" with the exception
ProcessOutcomes == { "ok", "raise_before_save", "raise_after_save" }

Free == "free"

(***************************************************************************)
(* generate_emoji.py : the console                                         *)
(***************************************************************************)
\* a printed piece: the thread that printed it, what it is, the item named
Piece(who, what, name) == [ who |-> who, what |-> what, name |-> name ]

\* print(..., end="") leaves the line open; every other print ends it
EndsLine(piece) == piece.what # "prefix"

\* the last console line after one more piece is printed
LineAfter(line, piece) ==
    IF line # << >> /\ EndsLine(line[Len(line)])
    THEN << piece >>
    ELSE Append(line, piece)

print(piece) ==
    /\ console_line' = LineAfter(console_line, piece)
    /\ logged' = logged \cup { piece }

(***************************************************************************)
(* generate_emoji.py : main, step 1                                        *)
(***************************************************************************)
\* the sub-sequence of seq whose elements satisfy Keep
RECURSIVE SelectNames(_, _)
SelectNames(seq, keep) ==
    IF seq = << >> THEN << >>
    ELSE IF seq[1] \in keep
         THEN << seq[1] >> \o SelectNames(Tail(seq), keep)
         ELSE SelectNames(Tail(seq), keep)

\* directories a run can start from: every raw image is absent or left by an
\* earlier run, and the bitmaps of the earlier run are all there or all gone
GenDirs ==
    { [ raw |-> r, final |-> f ] :
        r \in [ EmotionNames -> { NoFile, File(OldPng) } ],
        f \in [ EmotionNames -> { NoFile, File(OldPng) } ] }

GenInit ==
    /\ ConvIdle
    /\ MonoIdle
    /\ \E d \in GenDirs :
        /\ \/ \A n \in EmotionNames : d.final[n] = d.raw[n]
           \/ \A n \in EmotionNames : d.final[n] = NoFile
        /\ raw_dir = d.raw
        /\ final_dir = d.final
    /\ preview_dir = [ n \in EmotionNames |-> NoFile ]
    /\ gen_pc = "scan"
    /\ todo = << >>
    /\ skipped = 0
    /\ generated = 0
    /\ failed = 0
    /\ missing = << >>
    /\ proc_i = 0
    /\ processed = 0
    /\ task_pc = [ n \in EmotionNames |-> "none" ]
    /\ resp = [ n \in EmotionNames |-> "none" ]
    /\ image_data = [ n \in EmotionNames |-> "unset" ]
    /\ future = [ n \in EmotionNames |-> << >> ]
    /\ print_lock = Free
    /\ console_line = << >>
    /\ logged = {}

\* mutant of GenScan: the raw_path.exists() test is dropped, every expression
\* is put in todo
GenScan_all ==
    /\ gen_pc = "scan"
    /\ todo' = EMOTIONS
    /\ skipped' = 0
    /\ logged' = logged
    /\ console_line' = << Piece("main", "start", "") >>
    /\ task_pc' = [ n \in EmotionNames |-> "queued" ]
    /\ gen_pc' = "pool"
    /\ UNCHANGED << dir_vars, generated, failed, missing, proc_i, processed,
                    resp, image_data, future, print_lock, conv_vars,
                    mono_vars >>

\* the loop that builds todo and counts skipped, then the submission of every
\* todo item to the executor
GenScan ==
    /\ gen_pc = "scan"
    /\ LET absent == { n \in EmotionNames : raw_dir[n] = NoFile }
           present == EmotionNames \ absent
       IN  /\ todo' = SelectNames(EMOTIONS, absent)
           /\ skipped' = Cardinality(present)
           /\ logged' = logged \cup { Piece("main", "skip", n) : n \in present }
           /\ console_line' =
                IF absent # {}
                THEN << Piece("main", "start", "") >>
                ELSE IF present # {}
                     THEN << Piece("main", "skip",
                                   SelectNames(EMOTIONS, present)[Cardinality(present)]) >>
                     ELSE console_line
           /\ task_pc' = [ n \in EmotionNames |->
                            IF n \in absent THEN "queued" ELSE "none" ]
    /\ gen_pc' = "pool"
    /\ UNCHANGED << dir_vars, generated, failed, missing, proc_i, processed,
                    resp, image_data, future, print_lock, conv_vars,
                    mono_vars >>

\* the tasks a worker thread is running
Running ==
    { n \in EmotionNames :
        task_pc[n] \in { "request", "image", "noimage", "locked" } }

\* the queued task the executor hands out next: the first one submitted
NextQueued(n) ==
    /\ task_pc[n] = "queued"
    /\ \A k \in 1..Len(todo) :
        task_pc[todo[k]] = "queued" =>
            \A j \in 1..Len(todo) : todo[j] = n => j <= k

\* a worker takes the task; generate_single_emoji prints "正在生成 ..." with
\* end="" and sends the request
TaskStart(n) ==
    /\ gen_pc = "pool"
    /\ NextQueued(n)
    /\ Cardinality(Running) < MAX_WORKERS
    /\ print(Piece(n, "prefix", n))
    /\ task_pc' = [ task_pc EXCEPT ![n] = "request" ]
    /\ UNCHANGED << dir_vars, main_vars, resp, image_data, future, print_lock,
                    conv_vars, mono_vars >>

\* generate_content answers: an image part (print ✓, return its data), no
\* image part (print ✗, return None) or an exception (print ✗, return None)
TaskRespond(n, r) ==
    /\ gen_pc = "pool"
    /\ task_pc[n] = "request"
    /\ resp' = [ resp EXCEPT ![n] = r ]
    /\ print(Piece(n, r, n))
    /\ image_data' = [ image_data EXCEPT
                         ![n] = IF r = "image" THEN Payload ELSE "None" ]
    /\ task_pc' = [ task_pc EXCEPT
                      ![n] = IF r = "image" THEN "image" ELSE "noimage" ]
    /\ UNCHANGED << dir_vars, main_vars, future, print_lock, conv_vars,
                    mono_vars >>

\* "if image_data: raw_path.write_bytes(image_data); return (name, True)"
TaskWrite(n) ==
    /\ gen_pc = "pool"
    /\ task_pc[n] = "image"
    /\ raw_dir' = [ raw_dir EXCEPT ![n] = File(image_data[n]) ]
    /\ future' = [ future EXCEPT ![n] = << n, TRUE >> ]
    /\ task_pc' = [ task_pc EXCEPT ![n] = "done" ]
    /\ UNCHANGED << final_dir, preview_dir, main_vars, resp, image_data,
                    print_lock, console_vars, conv_vars, mono_vars >>

\* "else: with print_lock:" - the acquire
TaskLock(n) ==
    /\ gen_pc = "pool"
    /\ task_pc[n] = "noimage"
    /\ print_lock = Free
    /\ print_lock' = n
    /\ task_pc' = [ task_pc EXCEPT ![n] = "locked" ]
    /\ UNCHANGED << dir_vars, main_vars, resp, image_data, future,
                    console_vars, conv_vars, mono_vars >>

\* print "生成失败" under the lock, release it, return (name, False)
TaskFail(n) ==
    /\ gen_pc = "pool"
    /\ task_pc[n] = "locked"
    /\ print_lock = n
    /\ print(Piece(n, "failed", n))
    /\ print_lock' = Free
    /\ future' = [ future EXCEPT ![n] = << n, FALSE >> ]
    /\ task_pc' = [ task_pc EXCEPT ![n] = "done" ]
    /\ UNCHANGED << dir_vars, main_vars, resp, image_data, conv_vars,
                    mono_vars >>

\* mutant of Collect: a failed result is counted as generated
Collect_miscount(n) ==
    /\ gen_pc = "pool"
    /\ task_pc[n] = "done"
    /\ generated' = generated + 1
    /\ failed' = failed
    /\ task_pc' = [ task_pc EXCEPT ![n] = "collected" ]
    /\ UNCHANGED << dir_vars, gen_pc, todo, skipped, missing, proc_i,
                    processed, resp, image_data, future, print_lock,
                    console_vars, conv_vars, mono_vars >>

\* one iteration of "for future in as_completed(futures)"
Collect(n) ==
    /\ gen_pc = "pool"
    /\ task_pc[n] = "done"
    /\ IF future[n][2]
       THEN generated' = generated + 1 /\ failed' = failed
       ELSE failed' = failed + 1 /\ generated' = generated
    /\ task_pc' = [ task_pc EXCEPT ![n] = "collected" ]
    /\ UNCHANGED << dir_vars, gen_pc, todo, skipped, missing, proc_i,
                    processed, resp, image_data, future, print_lock,
                    console_vars, conv_vars, mono_vars >>

\* every future was yielded, the executor shut down: print the counts, build
\* and print the list of missing raw images
GenReport ==
    /\ gen_pc = "pool"
    /\ \A n \in EmotionNames : task_pc[n] \in { "none", "collected" }
    /\ missing' = SelectNames(EMOTIONS,
                              { n \in EmotionNames : raw_dir[n] = NoFile })
    /\ logged' = logged \cup { Piece("main", "counts", "") }
                        \cup { Piece("main", "missing", n) :
                                 n \in { m \in EmotionNames : raw_dir[m] = NoFile } }
    /\ console_line' = << Piece("main", "step2", "") >>
    /\ proc_i' = 1
    /\ gen_pc' = "process"
    /\ UNCHANGED << dir_vars, todo, skipped, generated, failed, processed,
                    task_vars, conv_vars, mono_vars >>

(***************************************************************************)
(* generate_emoji.py : main, step 2                                        *)
(***************************************************************************)
\* "if not raw_path.exists(): print(原始图片缺失，跳过); continue"
ProcessSkip ==
    /\ gen_pc = "process"
    /\ proc_i <= Len(EMOTIONS)
    /\ raw_dir[EMOTIONS[proc_i]] = NoFile
    /\ print(Piece("main", "raw_missing", EMOTIONS[proc_i]))
    /\ proc_i' = proc_i + 1
    /\ UNCHANGED << dir_vars, gen_pc, todo, skipped, generated, failed,
                    missing, processed, task_vars, conv_vars, mono_vars >>

\* "try: process_to_monochrome_32(raw_path, final_path) ... except ..."
\* process_to_monochrome_32 saves the bitmap, then the preview
Process(o) ==
    /\ gen_pc = "process"
    /\ proc_i <= Len(EMOTIONS)
    /\ raw_dir[EMOTIONS[proc_i]] # NoFile
    /\ final_dir' = IF o = "raise_before_save" THEN final_dir
                    ELSE [ final_dir EXCEPT ![EMOTIONS[proc_i]] = File(MonoPng) ]
    /\ preview_dir' = IF o = "ok"
                      THEN [ preview_dir EXCEPT
                               ![EMOTIONS[proc_i]] = File(PreviewPng) ]
                      ELSE preview_dir
    /\ processed' = IF o = "ok" THEN processed + 1 ELSE processed
    /\ print(Piece("main", o, EMOTIONS[proc_i]))
    /\ proc_i' = proc_i + 1
    /\ UNCHANGED << raw_dir, gen_pc, todo, skipped, generated, failed,
                    missing, task_vars, conv_vars, mono_vars >>

\* after the loop: the closing lines and generate_preview_html
GenFinish ==
    /\ gen_pc = "process"
    /\ proc_i > Len(EMOTIONS)
    /\ print(Piece("main", "finished", ""))
    /\ gen_pc' = "done"
    /\ UNCHANGED << dir_vars, todo, skipped, generated, failed, missing,
                    proc_i, processed, task_vars, conv_vars, mono_vars >>

GenNext ==
    \/ GenScan
    \/ \E n \in EmotionNames : TaskStart(n)
    \/ \E n \in EmotionNames, r \in Responses : TaskRespond(n, r)
    \/ \E n \in EmotionNames : TaskWrite(n)
    \/ \E n \in EmotionNames : TaskLock(n)
    \/ \E n \in EmotionNames : TaskFail(n)
    \/ \E n \in EmotionNames : Collect(n)
    \/ GenReport
    \/ ProcessSkip
    \/ \E o \in ProcessOutcomes : Process(o)
    \/ GenFinish

SpecGen == GenInit /\ [][GenNext]_vars

(***************************************************************************)
(* generate_emoji.py : process_to_monochrome_32, the thresholding step     *)
(***************************************************************************)
\* the cutoff of "255 if x > 180 else 0"
THRESHOLD == 180

\* pixel values of a mode "1" image
WHITE == 255
BLACK == 0

\* mutant of lut: x >= 180
lut_inclusive(x) == IF x >= THRESHOLD THEN 255 ELSE 0

\* lambda x: 255 if x > 180 else 0
lut(x) == IF x > THRESHOLD THEN 255 ELSE 0

\* img.point(lut, mode="1"): every pixel value goes through the table
point(img) ==
    [ mode |-> "1", size |-> img.size, fg |-> lut(img.fg), bg |-> lut(img.bg),
      pat |-> img.pat ]

\* luminance values two-tone inputs are made of
LumSamples == { 0, 100, 179, 180, 181, 200, 255 }

\* the 32x32 "L" images that reach the thresholding step: every uniform one,
\* and two-tone ones
LumImages ==
    { [ mode |-> "L", size |-> <<SIZE, SIZE>>, fg |-> x, bg |-> x, pat |-> 1 ] :
        x \in 0..255 }
    \cup [ mode : {"L"}, size : {<<SIZE, SIZE>>}, fg : LumSamples,
           bg : LumSamples, pat : 1..NumPatterns ]

MonoInit ==
    /\ ConvIdle
    /\ GenIdle
    /\ lum_img \in LumImages
    /\ mono_img = << >>
    /\ mono_pc = "resized"

\* img = img.point(lambda x: 255 if x > 180 else 0, mode="1")
Threshold ==
    /\ mono_pc = "resized"
    /\ mono_img' = point(lum_img)
    /\ mono_pc' = "thresholded"
    /\ UNCHANGED << lum_img, conv_vars, gen_vars >>

MonoNext == Threshold

SpecMono == MonoInit /\ [][MonoNext]_vars

(***************************************************************************)
(* The repository: one of the scripts runs                                 *)
(***************************************************************************)
Init == ConvInit \/ GenInit \/ MonoInit

Next == ConvNext \/ GenNext \/ MonoNext

Spec == Init /\ [][Next]_vars

(***************************************************************************)
(* Properties of convert_to_lvgl.py                                        *)
(***************************************************************************)
\* the inputs of the batch
Present(k) == emoji_dir[EMOJI_MAP[k][1]] # NoFile
Valid(k) == Present(k) /\ size_ok(Content(emoji_dir[EMOJI_MAP[k][1]]))
OutFile(k) == output_dir[out_path(EMOJI_MAP[k][2])]

\* the output file of entry k was written by this run
Written(k) == OutFile(k) \notin { NoFile, File(OldCode) }

\* the lines of one kind main printed
Lines(kind) ==
    { j \in 1..Len(conv_stdout) : conv_stdout[j][1] = kind }

\* C1: when one input is present but not 32x32, the driver catches the
\* failure, reports the item and goes on: the run ends with its summary and
\* every later valid input has its output file written.
C1_BadSizeIsCaughtAndSkipped ==
    ( /\ conv_pc \in { "done", "aborted" }
      /\ \E k \in 1..Len(EMOJI_MAP) : Present(k) /\ ~ Valid(k) )
    => /\ conv_pc = "done"
       /\ \A k \in 1..Len(EMOJI_MAP) : Valid(k) => Written(k)

\* every present input is a valid 32x32 image
AllPresentValid == \A k \in 1..Len(EMOJI_MAP) : Present(k) => Valid(k)

MissingEntries == { k \in 1..Len(EMOJI_MAP) : ~ Present(k) }

\* C2: with all present inputs valid, for every set M of missing inputs the
\* driver never aborts, reports exactly the identifiers of M as missing,
\* writes exactly one output file emoji_<codepoint>_32.c for every other
\* expression, and ends with converted = len(EMOJI_MAP) - |M|.
C2_MissingInputsAreSkipped ==
    AllPresentValid =>
        /\ conv_pc # "aborted"
        /\ conv_pc = "encode" => size_ok(png)
        /\ conv_pc = "done" =>
            /\ { conv_stdout[j][2] : j \in Lines("missing") }
                 = { EMOJI_MAP[k][1] : k \in MissingEntries }
            /\ Cardinality(Lines("missing")) = Cardinality(MissingEntries)
            /\ \A k \in 1..Len(EMOJI_MAP) :
                IF k \in MissingEntries
                THEN ~ Written(k)
                ELSE /\ Written(k)
                     /\ Content(OutFile(k)).var_name
                          = << "emoji", EMOJI_MAP[k][2], "32" >>
                     /\ Cardinality({ j \in Lines("ok") :
                           conv_stdout[j][2] = EMOJI_MAP[k][1] }) = 1
            /\ Cardinality(Lines("ok"))
                 = Len(EMOJI_MAP) - Cardinality(MissingEntries)
            /\ converted = Len(EMOJI_MAP) - Cardinality(MissingEntries)
            /\ conv_stdout[Len(conv_stdout)]
                 = << "summary", converted, Len(EMOJI_MAP) >>

\* two inputs are missing, the run is over and the third file was written
C2_Witness ==
    /\ conv_pc = "done"
    /\ AllPresentValid
    /\ Cardinality(MissingEntries) = 2
    /\ ~ Present(1)
    /\ \E k \in 1..Len(EMOJI_MAP) : Written(k)
    /\ converted = Len(EMOJI_MAP) - 2

\* the 16-bit colour of an RGBA pixel, by integer arithmetic
color16(p) == (p[1] \div 8) * 2048 + (p[2] \div 4) * 32 + (p[3] \div 8)

\* pixel i of the image being converted, row-major
SourcePixel(i) == getpixel(png, i % 32, i \div 32)

\* data holds the blob of the current input
Encoded == conv_pc \in { "emit", "write" }

\* C3: for every pixel i = y*32 + x, blob[2i] is the low byte and blob[2i+1]
\* the high byte of color16 = ((R>>3)<<11) | ((G>>2)<<5) | (B>>3), truncated
\* from the original R, G, B; color16 fits in 16 bits; a pure red pixel gives
\* 0x00, 0xF8.
C3_ColorBytesLittleEndian ==
    Encoded =>
        \A i \in 0..(32 * 32 - 1) :
            LET p == SourcePixel(i)
                c == color16(p)
            IN  /\ c \in 0..65535
                /\ data[2 * i + 1] = c % 256
                /\ data[2 * i + 2] = c \div 256
                /\ p = <<255, 0, 0, 255>> =>
                     data[2 * i + 1] = 0 /\ data[2 * i + 2] = 248

\* a blob of an image with red pixels and pixels whose low bits are set
C3_Witness ==
    /\ conv_pc = "emit"
    /\ png.fg = <<255, 0, 0, 255>>
    /\ png.bg = <<7, 3, 7, 1>>
    /\ png.pat = 2
    /\ data[1] = 0
    /\ data[2] = 248
    /\ data[3] = 0
    /\ data[4] = 0

\* C4: the blob has 32*32*3 = 3072 bytes, the colour plane is bytes 0..2047,
\* the alpha plane bytes 2048..3071, and blob[2048 + i] is the original alpha
\* of pixel i.
C4_PlanarLayoutAlphaExact ==
    Encoded =>
        /\ Len(data) = 3072
        /\ \A i \in 0..(32 * 32 - 1) :
            /\ data[2048 + i + 1] = SourcePixel(i)[4]
            /\ data[2 * i + 1] + 256 * data[2 * i + 2] = color16(SourcePixel(i))

\* a blob of an image whose two colours differ in alpha
C4_Witness ==
    /\ conv_pc = "emit"
    /\ png.fg = <<7, 3, 7, 1>>
    /\ png.bg = <<8, 252, 248, 254>>
    /\ png.pat = 2
    /\ data[2049] = 1
    /\ data[2050] = 254
    /\ data[3072] = 1

\* the value of a hexadecimal digit
HexValue(ch) == (CHOOSE v \in 1..16 : HexDigits[v] = ch) - 1

\* the byte a token reads as
ParseHex(tok) == 16 * HexValue(tok[1]) + HexValue(tok[2])

\* C5: the array literal is 32 colour rows of 64 bytes followed by 32 alpha
\* rows of 32 bytes, the tokens read in order are the blob's bytes, stride is
\* 64 = width*2 and data_size is the blob's length, the number of bytes
\* emitted.
C5_RowsAreTheBlob ==
    conv_pc = "write" =>
        /\ Len(c_code.rows) = 64
        /\ \A r \in 1..32 :
            /\ Len(c_code.rows[r]) = 64
            /\ \A j \in 1..64 :
                ParseHex(c_code.rows[r][j]) = data[(r - 1) * 64 + j]
        /\ \A r \in 1..32 :
            /\ Len(c_code.rows[32 + r]) = 32
            /\ \A j \in 1..32 :
                ParseHex(c_code.rows[32 + r][j]) = data[2048 + (r - 1) * 32 + j]
        /\ c_code.stride = 64
        /\ c_code.stride = c_code.w * 2
        /\ c_code.data_size = Len(data)
        /\ c_code.data_size = 32 * 64 + 32 * 32

\* the C source of an image whose colour and alpha bytes differ
C5_Witness ==
    /\ conv_pc = "write"
    /\ png.fg = <<255, 0, 0, 255>>
    /\ png.bg = <<7, 3, 7, 1>>
    /\ png.pat = 2
    /\ c_code.rows[1][2] = << "f", "8" >>
    /\ c_code.rows[33][1] = << "f", "f" >>
    /\ c_code.rows[33][2] = << "0", "1" >>
    /\ c_code.data_size = 3072

(***************************************************************************)
(* Properties of the thresholding step                                     *)
(***************************************************************************)
Pixels == (0..(SIZE - 1)) \X (0..(SIZE - 1))

\* C6 as stated: a pixel is black when its luminance is strictly greater than
\* 180 and white otherwise; an input uniformly brighter than the threshold
\* gives an all-black bitmap, one uniformly below it an all-white bitmap.
C6_BrightBecomesBlack ==
    mono_pc = "thresholded" =>
        \A q \in Pixels :
            getpixel(mono_img, q[1], q[2])
              = IF getpixel(lum_img, q[1], q[2]) > 180 THEN BLACK ELSE WHITE

\* C6 amended: a pixel is white (255) when its luminance is strictly greater
\* than 180 and black (0) otherwise; an input uniformly brighter than the
\* threshold gives an all-white bitmap, one uniformly at or below it an
\* all-black bitmap.
C6_BrightBecomesWhite ==
    mono_pc = "thresholded" =>
        /\ mono_img.size = <<32, 32>>
        /\ \A q \in Pixels :
            getpixel(mono_img, q[1], q[2])
              = IF getpixel(lum_img, q[1], q[2]) > 180 THEN WHITE ELSE BLACK
        /\ (\A q \in Pixels : getpixel(lum_img, q[1], q[2]) > 180)
             => \A q \in Pixels : getpixel(mono_img, q[1], q[2]) = WHITE
        /\ (\A q \in Pixels : getpixel(lum_img, q[1], q[2]) <= 180)
             => \A q \in Pixels : getpixel(mono_img, q[1], q[2]) = BLACK

\* a uniform input at the cutoff itself has been thresholded
C6_Witness ==
    /\ mono_pc = "thresholded"
    /\ lum_img.fg = 180
    /\ lum_img.bg = 180
    /\ \A q \in Pixels : getpixel(mono_img, q[1], q[2]) = BLACK

(***************************************************************************)
(* Properties of generate_emoji.py                                         *)
(***************************************************************************)
\* the raw image of n was left by an earlier run and has not been written
RawKept(n) == raw_dir[n] = File(OldPng)
FinalKept(n) == final_dir[n] = File(OldPng)

\* C7 as stated: an expression whose output exists at the start of the run
\* gets no generation request and none of its existing output files, raw or
\* quantized, is written again.
C7_ExistingOutputsUntouched ==
    [][ \A n \in EmotionNames :
          RawKept(n) =>
              /\ task_pc'[n] = "none"
              /\ resp'[n] = "none"
              /\ raw_dir'[n] = raw_dir[n]
              /\ FinalKept(n) => final_dir'[n] = final_dir[n] ]_vars

\* C7 amended: an expression whose raw image exists at the start of the run
\* gets no generation request and its raw image is not written again; its
\* quantized image is computed again from the raw image in step 2 and
\* replaces the existing one unless the processing raises before the save.
C7_ExistingRawUntouched ==
    [][ \A n \in EmotionNames :
          RawKept(n) =>
              /\ task_pc'[n] = "none"
              /\ resp'[n] = "none"
              /\ image_data'[n] = "unset"
              /\ raw_dir'[n] = raw_dir[n]
              /\ ( /\ gen_pc' = "done"
                   /\ Piece("main", "raise_before_save", n) \notin logged' )
                 => final_dir'[n] = File(MonoPng) ]_vars

\* a finished run that kept an existing raw image, replaced its existing
\* bitmap, generated one image and failed on another
C7_Witness ==
    /\ gen_pc = "done"
    /\ \E n \in EmotionNames :
        /\ RawKept(n)
        /\ task_pc[n] = "none"
        /\ final_dir[n] = File(MonoPng)
    /\ \E n \in EmotionNames : raw_dir[n] = File(Payload)
    /\ \E n \in EmotionNames : raw_dir[n] = NoFile
    /\ skipped >= 1

\* the tasks main dispatched
Dispatched == { todo[k] : k \in 1..Len(todo) }

\* the tasks whose request gave no image
NoImage == { n \in EmotionNames : resp[n] \in { "no_image", "error" } }

\* C8: whatever the outcomes of the tasks and the order they complete in, a
\* failing task never stops a sibling, every dispatched result is collected
\* exactly once, and when the step finishes generated + failed is the number
\* of dispatched items, generated + skipped + failed the number of
\* expressions, failed the number of tasks without an image, and missing
\* lists exactly the expressions that have no raw file.
C8_EveryResultCollectedOnce ==
    /\ gen_pc = "pool" => ENABLED GenNext
    /\ gen_pc = "pool" =>
        /\ generated + failed
             = Cardinality({ n \in Dispatched : task_pc[n] = "collected" })
        /\ failed = Cardinality({ n \in NoImage : task_pc[n] = "collected" })
    /\ gen_pc \in { "process", "done" } =>
        /\ \A n \in Dispatched : task_pc[n] = "collected"
        /\ \A n \in Dispatched : resp[n] \in Responses
        /\ \A n \in EmotionNames \ Dispatched : task_pc[n] = "none"
        /\ generated + failed = Len(todo)
        /\ generated + skipped + failed = Len(EMOTIONS)
        /\ failed = Cardinality(NoImage)
        /\ { missing[k] : k \in 1..Len(missing) }
             = { n \in EmotionNames : raw_dir[n] = NoFile }
        /\ Len(missing) = failed
        /\ { missing[k] : k \in 1..Len(missing) } = NoImage

\* the step finished with one image generated, one request that returned no
\* image and one that raised
C8_Witness ==
    /\ gen_pc = "process"
    /\ generated >= 1
    /\ \E n \in EmotionNames : resp[n] = "no_image"
    /\ \E n \in EmotionNames : resp[n] = "error"
    /\ failed = 2

\* C10: the console lines of the workers are never interleaved: no piece of
\* another thread appears between the start and the end of one worker's
\* line.
C10_LinesNotInterleaved ==
    \A j, k \in 1..Len(console_line) :
        console_line[j].who = console_line[k].who

(***************************************************************************)
(* Property of both batch drivers                                          *)
(***************************************************************************)
\* the converter: an output file written by this run is the complete source
\* of a valid input the loop is past, and the item being worked on or that
\* failed has no file written; a failure is on stderr
ConvWritesOnlyAssembled ==
    \A k \in 1..Len(EMOJI_MAP) :
        /\ Written(k) =>
            /\ Valid(k)
            /\ k < conv_i
            /\ Content(OutFile(k)).var_name = << "emoji", EMOJI_MAP[k][2], "32" >>
            /\ Len(Content(OutFile(k)).rows) = 64
            /\ Content(OutFile(k)).data_size = 3072
        /\ (conv_i = k /\ conv_pc \in { "encode", "emit", "write", "aborted" })
             => ~ Written(k)
        /\ (conv_i = k /\ conv_pc = "aborted")
             => conv_stderr = << "AssertionError", EMOJI_MAP[k][1],
                                 Content(emoji_dir[EMOJI_MAP[k][1]]).size >>

\* the generator: a raw file written by this run is the payload the request
\* returned; a task without an image leaves no raw file, is logged and, once
\* collected, counted; a bitmap is saved only by a processing that got to the
\* save, and a processing that raised before it is logged and leaves the
\* bitmap as it was
GenWritesOnlyAssembled ==
    \A n \in EmotionNames :
        /\ raw_dir[n] \notin { NoFile, File(OldPng) } =>
            /\ raw_dir[n] = File(Payload)
            /\ image_data[n] = Payload
            /\ resp[n] = "image"
        /\ image_data[n] = "None" =>
            /\ raw_dir[n] = NoFile
            /\ Piece(n, resp[n], n) \in logged
            /\ task_pc[n] \in { "done", "collected" }
                 => Piece(n, "failed", n) \in logged
            /\ task_pc[n] = "collected" => failed >= 1
        /\ Piece("main", "raise_before_save", n) \in logged
             => final_dir[n] # File(MonoPng)
        /\ final_dir[n] \notin { NoFile, File(OldPng) } =>
            /\ final_dir[n] = File(MonoPng)
            /\ raw_dir[n] # NoFile
            /\ \/ Piece("main", "ok", n) \in logged
               \/ Piece("main", "raise_after_save", n) \in logged

\* C9: in both batch drivers an item's final file is written only after the
\* item's data is fully assembled in memory, so an item that fails before
\* that point has no output file created or modified, and the failure is
\* logged or counted.
C9_WriteOnlyAfterAssembly ==
    /\ conv_pc # "idle" => ConvWritesOnlyAssembled
    /\ gen_pc # "idle" => GenWritesOnlyAssembled

\* a finished generator run in which one task got no image and left no raw
\* file, another wrote its payload, and a processing raised before the save
\* and left the earlier bitmap in place
C9_Witness ==
    /\ gen_pc = "done"
    /\ \E n \in EmotionNames : image_data[n] = "None" /\ raw_dir[n] = NoFile
    /\ \E n \in EmotionNames : raw_dir[n] = File(Payload)
    /\ \E n \in EmotionNames :
        /\ Piece("main", "raise_before_save", n) \in logged
        /\ final_dir[n] = File(OldPng)
    /\ failed = 1

=============================================================================
